---------------------------- MODULE Spec2Model ----------------------------
(***************************************************************************)
(* A model of the json_fragments resolver: JsonResolver::resolve builds a  *)
(* tree of nodes from the start fragment (FragmentParser::parse, recording *)
(* dependency edges in a DependencyTracker) and then evaluates the tree.   *)
(*                                                                         *)
(* Strings are sequences of one-character strings, so that the delimiter   *)
(* scans of the code (find, rfind, substr, replace) are computed and not   *)
(* assumed.  Positions are the 0-based positions of std::string; npos is   *)
(* -1.  A fixed text of the code (an error prefix) is one element of such a *)
(* sequence.                                                               *)
(***************************************************************************)
EXTENDS Integers, Sequences, FiniteSets, TLC

VARIABLES
    config_,        \* JsonResolver::config_, fixed at construction
    context_,       \* JsonResolver::context_ : the path_ of the EvaluationContext
    fragments,      \* the caller's std::map<std::string, json>
    start_fragment, \* the argument of the resolve call in progress (or the last one)
    pc,             \* "idle" | "parsing" | "evaluating"
    stack,          \* the active calls of FragmentParser::parse, innermost last
    dependencies_,  \* DependencyTracker::dependencies_
    currently_evaluating_, \* DependencyTracker::currently_evaluating_
    outcome,        \* what the last resolve call that ended returned or threw
    calls           \* number of resolve calls made on this resolver

vars == <<config_, context_, fragments, start_fragment, pc, stack,
          dependencies_, currently_evaluating_, outcome, calls>>

-----------------------------------------------------------------------------
(* Bounds of the model *)

\* resolve calls made on one resolver object
MaxCalls == 2

\* iterations of the scan loop of a templated string before the model reports
\* that the loop does not end
MaxFuel == 12

-----------------------------------------------------------------------------
(* std::string *)

npos == 0 - 1

Min(a, b) == IF a < b THEN a ELSE b

\* the character code, for the ordering of std::map and std::set keys
Code(c) ==
    CASE c = "%" -> 37
      [] c = "0" -> 48 [] c = "1" -> 49 [] c = "2" -> 50 [] c = "3" -> 51
      [] c = "A" -> 65 [] c = "B" -> 66 [] c = "C" -> 67 [] c = "D" -> 68
      [] c = "M" -> 77
      [] c = "[" -> 91 [] c = "]" -> 93
      [] c = "k" -> 107 [] c = "s" -> 115 [] c = "x" -> 120 [] c = "y" -> 121
      [] c = "{" -> 123 [] c = "}" -> 125
      [] OTHER -> 32

RECURSIVE StrLess(_, _)
\* operator< of std::string
StrLess(a, b) ==
    IF b = << >> THEN FALSE
    ELSE IF a = << >> THEN TRUE
    ELSE IF Code(Head(a)) # Code(Head(b)) THEN Code(Head(a)) < Code(Head(b))
    ELSE StrLess(Tail(a), Tail(b))

RECURSIVE SortedSeq(_)
\* the iteration order of a std::set<std::string> or of the keys of a std::map
SortedSeq(S) ==
    IF S = {} THEN << >>
    ELSE LET m == CHOOSE e \in S : \A o \in S \ {e} : StrLess(e, o)
         IN  <<m>> \o SortedSeq(S \ {m})

\* s.substr(pos, n), for pos <= s.length()
SubStr(s, pos, n) == SubSeq(s, pos + 1, Min(pos + n, Len(s)))

\* s.substr(pos)
SubStrFrom(s, pos) == SubSeq(s, pos + 1, Len(s))

MatchAt(s, needle, i) ==
    /\ i >= 0
    /\ i + Len(needle) <= Len(s)
    /\ SubSeq(s, i + 1, i + Len(needle)) = needle

\* s.find(needle, pos)
Find(s, needle, pos) ==
    LET hits == {i \in pos .. Len(s) : MatchAt(s, needle, i)}
    IN  IF hits = {} THEN npos
        ELSE CHOOSE i \in hits : \A j \in hits : i <= j

\* s.rfind(needle, pos): the last occurrence that starts at or before pos
RFind(s, needle, pos) ==
    LET hits == {i \in 0 .. Min(pos, Len(s)) : MatchAt(s, needle, i)}
    IN  IF hits = {} THEN npos
        ELSE CHOOSE i \in hits : \A j \in hits : i >= j

\* s.replace(pos, n, by)
Replace(s, pos, n, by) ==
    SubSeq(s, 1, pos) \o by \o SubSeq(s, Min(pos + n, Len(s)) + 1, Len(s))

RECURSIVE to_string(_)
\* std::to_string of a size_t
to_string(i) ==
    LET d == <<"0", "1", "2", "3", "4", "5", "6", "7", "8", "9">>
    IN  IF i < 10 THEN <<d[i + 1]>>
        ELSE to_string(i \div 10) \o <<d[(i % 10) + 1]>>

-----------------------------------------------------------------------------
(* nlohmann::json values.  An object is a function from its keys, as the   *)
(* std::map it is stored in; its entries are visited in key order.         *)

JNull == [t |-> "null"]
JBool(b) == [t |-> "bool", b |-> b]
JInt(i) == [t |-> "int", i |-> i]
JFloat(f) == [t |-> "float", f |-> f]
JStr(s) == [t |-> "str", s |-> s]
JArr(a) == [t |-> "arr", a |-> a]
JObj(o) == [t |-> "obj", o |-> o]

is_string(v) == v.t = "str"
is_object(v) == v.t = "obj"
is_array(v) == v.t = "arr"

\* json::operator[](key) = value on a null or object value
SetKey(result, key, value) ==
    LET old == IF is_object(result) THEN result.o ELSE << >>
    IN  JObj([k \in (DOMAIN old) \cup {key} |->
                IF k = key THEN value ELSE old[k]])

-----------------------------------------------------------------------------
(* JsonResolverConfig *)

Delimiters(s, e) == [start |-> s, end |-> e]

DefaultDelimiters == Delimiters(<<"[">>, <<"]">>)

MissingFragmentBehavior == {"Throw", "LeaveUnresolved", "UseDefault", "Remove"}

Config(behavior, default, delims) ==
    [missing_fragment_behavior |-> behavior,
     default_value |-> default,
     delimiters |-> delims]

-----------------------------------------------------------------------------
(* exceptions.hpp: an exception is its class and its what() text *)

JsonFragmentsError(message) == [class |-> "JsonFragmentsError", what |-> message]

CircularDependencyError(cycle) ==
    [class |-> "CircularDependencyError",
     what |-> <<"Circular dependency detected: ">> \o cycle]

FragmentNotFoundError(fragment_name) ==
    [class |-> "FragmentNotFoundError",
     what |-> <<"Fragment not found: ">> \o fragment_name]

InvalidKeyError(key) ==
    [class |-> "InvalidKeyError",
     what |-> <<"Fragment used as key must resolve to a string: ">> \o key]

Returned(v) == [kind |-> "value", value |-> v]
Thrown(e) == [kind |-> "error", error |-> e]
\* the scan loop of a templated string does not end
Diverged == [kind |-> "diverged"]
NoOutcome == [kind |-> "none"]

-----------------------------------------------------------------------------
(* EvaluationContext *)

RECURSIVE path_string_from(_)
path_string_from(path) ==
    IF path = << >> THEN << >>
    ELSE <<"/">> \o Head(path) \o path_string_from(Tail(path))

\* EvaluationContext::path_string
path_string(path) ==
    LET result == path_string_from(path)
    IN  IF result = << >> THEN <<"/">> ELSE result

-----------------------------------------------------------------------------
(* DependencyTracker *)

\* the set stored under a key of dependencies_, empty when the key is absent
DepsOf(deps, name) == IF name \in DOMAIN deps THEN deps[name] ELSE {}

RECURSIVE has_cycle_from(_, _, _, _)
RECURSIVE has_cycle_deps(_, _, _, _)

\* DependencyTracker::has_cycle_from: the depth-first search, with the
\* visited set and the path it updates in place
has_cycle_from(deps, start, visited, path) ==
    IF \E i \in 1 .. Len(path) : path[i] = start
    THEN [found |-> TRUE, visited |-> visited,
          path |-> IF path = << >> \/ path[Len(path)] # start
                   THEN Append(path, start) ELSE path]
    ELSE IF start \in visited
    THEN [found |-> FALSE, visited |-> visited, path |-> path]
    ELSE LET r == has_cycle_deps(deps, SortedSeq(DepsOf(deps, start)),
                                 visited \cup {start}, Append(path, start))
         IN  IF r.found THEN r
             ELSE [found |-> FALSE, visited |-> r.visited,
                   path |-> SubSeq(r.path, 1, Len(r.path) - 1)]

\* the for loop of has_cycle_from over the dependencies of one fragment
has_cycle_deps(deps, todo, visited, path) ==
    IF todo = << >> THEN [found |-> FALSE, visited |-> visited, path |-> path]
    ELSE LET r == has_cycle_from(deps, Head(todo), visited, path)
         IN  IF r.found THEN r
             ELSE has_cycle_deps(deps, Tail(todo), r.visited, r.path)

RECURSIVE JoinArrow(_)
JoinArrow(path) ==
    IF path = << >> THEN << >>
    ELSE IF Len(path) = 1 THEN path[1]
    ELSE path[1] \o <<" ", "-", ">", " ">> \o JoinArrow(Tail(path))

\* DependencyTracker::build_cycle_string
build_cycle_string(path) ==
    IF path = << >> THEN << >>
    ELSE JoinArrow(path) \o <<" ", "-", ">", " ">> \o path[1]

\* dependencies_[dependent].insert(dependency)
InsertDependency(deps, dependent, dependency) ==
    [n \in (DOMAIN deps) \cup {dependent} |->
        IF n = dependent THEN DepsOf(deps, n) \cup {dependency} ELSE deps[n]]

\* an add_dependency that records the edge and makes no cycle check
add_dependency_NoCheck(deps, dependent, dependency) ==
    IF dependent = << >> THEN [deps |-> deps, threw |-> FALSE]
    ELSE [deps |-> InsertDependency(deps, dependent, dependency),
          threw |-> FALSE]

\* DependencyTracker::add_dependency: the new dependencies_ and what it throws
add_dependency(deps, dependent, dependency) ==
    IF dependent = << >> THEN [deps |-> deps, threw |-> FALSE]
    ELSE LET d == InsertDependency(deps, dependent, dependency)
             c == has_cycle_from(d, dependent, {}, << >>)
         IN  IF c.found
             THEN [deps |-> d, threw |-> TRUE,
                   error |-> CircularDependencyError(build_cycle_string(c.path))]
             ELSE [deps |-> d, threw |-> FALSE]

\* DependencyTracker::begin_evaluation: the new currently_evaluating_ and
\* what it throws
begin_evaluation(evaluating, fragment_name) ==
    IF fragment_name \in evaluating
    THEN [evaluating |-> evaluating, threw |-> TRUE,
          error |-> CircularDependencyError(
                        build_cycle_string(SortedSeq(evaluating)))]
    ELSE [evaluating |-> evaluating \cup {fragment_name}, threw |-> FALSE]

\* an end_evaluation that leaves the fragment in progress
end_evaluation_Keeps(evaluating, fragment_name) == evaluating

\* DependencyTracker::end_evaluation
end_evaluation(evaluating, fragment_name) == evaluating \ {fragment_name}

-----------------------------------------------------------------------------
(* FragmentParser *)

is_complete_fragment_reference(str, delims) ==
    /\ Len(str) >= Len(delims.start) + Len(delims.end)
    /\ SubStr(str, 0, Len(delims.start)) = delims.start
    /\ SubStrFrom(str, Len(str) - Len(delims.end)) = delims.end

RECURSIVE TrimLeft(_)
TrimLeft(str) ==
    IF str # << >> /\ Head(str) = " " THEN TrimLeft(Tail(str)) ELSE str

\* an extract_fragment_name that trims the blanks before the name
extract_fragment_name_Trimmed(reference, delims) ==
    TrimLeft(SubStr(reference, Len(delims.start),
                    Len(reference) - Len(delims.start) - Len(delims.end)))

extract_fragment_name(reference, delims) ==
    SubStr(reference, Len(delims.start),
           Len(reference) - Len(delims.start) - Len(delims.end))

LiteralNode(value) == [k |-> "Literal", value |-> value]
ReferenceNode(name) == [k |-> "Reference", fragment_name |-> name]
StringTemplateNode(text) == [k |-> "StringTemplate", template_text |-> text]
ObjectNode(entries) == [k |-> "Object", entries |-> entries]
ArrayNode(elements) == [k |-> "Array", elements |-> elements]

\* the node FragmentParser::parse makes of a string value
ParseString(str, delims) ==
    IF is_complete_fragment_reference(str, delims)
    THEN ReferenceNode(extract_fragment_name(str, delims))
    ELSE IF Find(str, delims.start, 0) # npos
    THEN StringTemplateNode(str)
    ELSE LiteralNode(JStr(str))

\* the key node FragmentParser::parse makes of an object key
ParseKey(key, delims) ==
    IF is_complete_fragment_reference(key, delims)
    THEN ReferenceNode(extract_fragment_name(key, delims))
    ELSE LiteralNode(JStr(key))

RECURSIVE ParseTree(_, _)
\* the tree FragmentParser::parse returns for a value
ParseTree(input, delims) ==
    IF is_string(input) THEN ParseString(input.s, delims)
    ELSE IF is_object(input)
    THEN LET keys == SortedSeq(DOMAIN input.o)
         IN  ObjectNode([i \in 1 .. Len(keys) |->
                 <<ParseKey(keys[i], delims),
                   ParseTree(input.o[keys[i]], delims)>>])
    ELSE IF is_array(input)
    THEN ArrayNode([i \in 1 .. Len(input.a) |-> ParseTree(input.a[i], delims)])
    ELSE LiteralNode(input)

RECURSIVE References(_, _)
RECURSIVE ReferencesOfEntries(_, _, _)
RECURSIVE ReferencesOfElements(_, _)

\* the whole-value references FragmentParser::parse meets in a value, in the
\* order it meets them: for each of them it calls add_dependency and
\* evaluate_fragment_dependencies
References(input, delims) ==
    IF is_string(input)
    THEN IF is_complete_fragment_reference(input.s, delims)
         THEN <<extract_fragment_name(input.s, delims)>> ELSE << >>
    ELSE IF is_object(input)
    THEN ReferencesOfEntries(input.o, SortedSeq(DOMAIN input.o), delims)
    ELSE IF is_array(input) THEN ReferencesOfElements(input.a, delims)
    ELSE << >>

ReferencesOfEntries(o, keys, delims) ==
    IF keys = << >> THEN << >>
    ELSE (IF is_complete_fragment_reference(Head(keys), delims)
          THEN <<extract_fragment_name(Head(keys), delims)>> ELSE << >>)
         \o References(o[Head(keys)], delims)
         \o ReferencesOfEntries(o, Tail(keys), delims)

ReferencesOfElements(a, delims) ==
    IF a = << >> THEN << >>
    ELSE References(Head(a), delims) \o ReferencesOfElements(Tail(a), delims)

\* one active call of parse(value, current_fragment): the references of the
\* value it has still to meet.  Every call but the outermost runs under a
\* FragmentEvaluationGuard.
Frame(name, value, delims) ==
    [current_fragment |-> name, todo |-> References(value, delims)]

\* guards whose destructors do not run when an exception passes
UnwindGuards_Leaves(evaluating, frames) == evaluating

\* the end_evaluation calls of the guards' destructors when an exception
\* leaves every active call of parse
UnwindGuards(evaluating, frames) ==
    evaluating \ {frames[i].current_fragment : i \in 2 .. Len(frames)}

-----------------------------------------------------------------------------
(* Node evaluation.  Every evaluate returns a value, throws, or (the scan  *)
(* loop of a templated string) does not end.  The ScopedComponent pushes   *)
(* are carried as the path parameter: each is popped when its scope ends,  *)
(* on return and on throw alike.                                           *)

\* a ReferenceNode::evaluate that substitutes the text of the target
ReferenceNodeEvaluate_AsText(fragment_name, frags, cfg) ==
    IF fragment_name \notin DOMAIN frags
    THEN CASE cfg.missing_fragment_behavior = "Throw" ->
                Thrown(FragmentNotFoundError(fragment_name))
           [] cfg.missing_fragment_behavior = "LeaveUnresolved" ->
                Returned(JStr(cfg.delimiters.start \o fragment_name
                              \o cfg.delimiters.end))
           [] cfg.missing_fragment_behavior = "UseDefault" ->
                Returned(cfg.default_value)
           [] cfg.missing_fragment_behavior = "Remove" ->
                Returned(JStr(<< >>))
    ELSE IF is_string(frags[fragment_name]) \/ is_object(frags[fragment_name])
            \/ is_array(frags[fragment_name])
    THEN Returned(frags[fragment_name])
    ELSE Returned(JStr(<<frags[fragment_name].t>>))

\* a ReferenceNode::evaluate whose LeaveUnresolved case returns the bare name
\* and whose Remove case returns null
ReferenceNodeEvaluate_BareName(fragment_name, frags, cfg) ==
    IF fragment_name \notin DOMAIN frags
    THEN CASE cfg.missing_fragment_behavior = "Throw" ->
                Thrown(FragmentNotFoundError(fragment_name))
           [] cfg.missing_fragment_behavior = "LeaveUnresolved" ->
                Returned(JStr(fragment_name))
           [] cfg.missing_fragment_behavior = "UseDefault" ->
                Returned(cfg.default_value)
           [] cfg.missing_fragment_behavior = "Remove" ->
                Returned(JNull)
    ELSE Returned(frags[fragment_name])

\* ReferenceNode::evaluate
ReferenceNodeEvaluate(fragment_name, frags, cfg) ==
    IF fragment_name \notin DOMAIN frags
    THEN CASE cfg.missing_fragment_behavior = "Throw" ->
                Thrown(FragmentNotFoundError(fragment_name))
           [] cfg.missing_fragment_behavior = "LeaveUnresolved" ->
                Returned(JStr(cfg.delimiters.start \o fragment_name
                              \o cfg.delimiters.end))
           [] cfg.missing_fragment_behavior = "UseDefault" ->
                Returned(cfg.default_value)
           [] cfg.missing_fragment_behavior = "Remove" ->
                Returned(JStr(<< >>))
    ELSE Returned(frags[fragment_name])

\* the catch clause of StringTemplateNode::evaluate: any JsonFragmentsError
\* thrown in the try block is thrown again as a plain JsonFragmentsError
\* with the path appended
TemplateRethrow(e, path) ==
    Thrown(JsonFragmentsError(e.what \o <<" at ">> \o path_string(path)))

RECURSIVE TemplateScan(_, _, _, _, _, _, _)
\* StringTemplateNode::evaluate from the test of the inner while loop, with
\* the loop's variables; fuel counts the iterations left
TemplateScan(result, pos, made_changes, fuel, frags, cfg, path) ==
    LET start == cfg.delimiters.start
        end == cfg.delimiters.end
        behavior == cfg.missing_fragment_behavior
        \* the inner loop is over: the do-while test
        EndOfPass ==
            IF made_changes
            THEN TemplateScan(result, 0, FALSE, fuel - 1, frags, cfg, path)
            ELSE Returned(JStr(result))
        end_pos == Find(result, end, pos)
        start_pos == RFind(result, start, end_pos)
        name_pos == start_pos + Len(start)
        \* the count of substr is a size_t: a negative difference wraps
        \* around to a count larger than the string
        fragment_name ==
            SubStr(result, name_pos,
                   IF end_pos >= name_pos THEN end_pos - name_pos
                   ELSE Len(result))
        span == end_pos + Len(end) - start_pos
    IN
    IF fuel = 0 THEN Diverged
    ELSE IF pos >= Len(result) THEN EndOfPass
    ELSE IF end_pos = npos THEN EndOfPass
    ELSE IF start_pos = npos \/ start_pos < pos
    THEN TemplateScan(result, end_pos + 1, made_changes, fuel - 1,
                      frags, cfg, path)
    ELSE IF name_pos > Len(result)
    THEN Thrown([class |-> "std::out_of_range", what |-> <<"basic_string::substr">>])
    ELSE IF fragment_name \notin DOMAIN frags
    THEN CASE behavior = "Throw" ->
                TemplateRethrow(FragmentNotFoundError(fragment_name), path)
           [] behavior = "LeaveUnresolved" ->
                TemplateScan(result, end_pos + 1, made_changes, fuel - 1,
                             frags, cfg, path)
           [] behavior = "UseDefault" ->
                IF ~is_string(cfg.default_value)
                THEN TemplateRethrow(InvalidKeyError(
                         <<"Default value for string template must be string">>),
                         path)
                ELSE TemplateScan(
                         Replace(result, start_pos, span, cfg.default_value.s),
                         pos, TRUE, fuel - 1, frags, cfg, path)
           [] behavior = "Remove" ->
                TemplateScan(Replace(result, start_pos, span, << >>),
                             pos, TRUE, fuel - 1, frags, cfg, path)
    ELSE IF ~is_string(frags[fragment_name])
    THEN TemplateRethrow(InvalidKeyError(
             <<"Fragment in string template must resolve to string: ">>
             \o fragment_name), path)
    ELSE TemplateScan(Replace(result, start_pos, span, frags[fragment_name].s),
                      pos, TRUE, fuel - 1, frags, cfg, path)

\* StringTemplateNode::evaluate
StringTemplateNodeEvaluate(template_text, frags, cfg, path) ==
    TemplateScan(template_text, 0, FALSE, MaxFuel, frags, cfg, path)

RECURSIVE EvaluateNode(_, _, _, _)
RECURSIVE ObjectNodeEntries(_, _, _, _, _, _)
RECURSIVE ArrayNodeElements(_, _, _, _, _, _)

\* FragmentNode::evaluate, by the kind of the node
EvaluateNode(node, frags, cfg, path) ==
    CASE node.k = "Literal" -> Returned(node.value)
      [] node.k = "Reference" ->
            ReferenceNodeEvaluate(node.fragment_name, frags, cfg)
      [] node.k = "StringTemplate" ->
            StringTemplateNodeEvaluate(node.template_text, frags, cfg, path)
      [] node.k = "Object" ->
            ObjectNodeEntries(node.entries, 1, JNull, frags, cfg, path)
      [] node.k = "Array" ->
            ArrayNodeElements(node.elements, 1, JArr(<< >>), frags, cfg, path)

\* ObjectNode::evaluate from its i-th entry on; result starts as the null
\* value of a default-constructed json
ObjectNodeEntries(entries, i, result, frags, cfg, path) ==
    IF i > Len(entries) THEN Returned(result)
    ELSE LET key_result == EvaluateNode(entries[i][1], frags, cfg, path)
         IN  IF key_result.kind # "value" THEN key_result
             ELSE IF ~is_string(key_result.value)
             THEN Thrown(InvalidKeyError(<<"Object key must evaluate to string">>))
             ELSE LET key == key_result.value.s
                      value == EvaluateNode(entries[i][2], frags, cfg,
                                            Append(path, key))
                  IN  IF value.kind # "value" THEN value
                      ELSE ObjectNodeEntries(entries, i + 1,
                               SetKey(result, key, value.value),
                               frags, cfg, path)

\* ArrayNode::evaluate from its i-th element on
ArrayNodeElements(elements, i, result, frags, cfg, path) ==
    IF i > Len(elements) THEN Returned(result)
    ELSE LET value == EvaluateNode(elements[i], frags, cfg,
                                   Append(path, to_string(i - 1)))
         IN  IF value.kind # "value" THEN value
             ELSE ArrayNodeElements(elements, i + 1,
                      JArr(Append(result.a, value.value)), frags, cfg, path)

-----------------------------------------------------------------------------
(* The calls the model makes: the fragment collections, the start names and *)
(* the configurations.                                                      *)

NameA == <<"A">>
NameB == <<"B">>
NameC == <<"C">>
\* the empty fragment name
NameEmpty == << >>
\* a name no collection holds
NameMissing == <<"M">>

\* start + name + end, as a string value
RefTo(name, d) == JStr(d.start \o name \o d.end)
\* "x" + start + name + end
TextWith(name, d) == JStr(<<"x">> \o d.start \o name \o d.end)
\* start + n1 + end + "x" + start + n2 + end
TextBetween(n1, n2, d) ==
    JStr(d.start \o n1 \o d.end \o <<"x">> \o d.start \o n2 \o d.end)
\* ["x", <reference to name>]
ArrayWith(name, d) == JArr(<<JStr(<<"x">>), RefTo(name, d)>>)
\* {"k": <reference to name>}
ObjectWith(name, d) == JObj(<<"k">> :> RefTo(name, d))
\* {<reference to name>: "x"}
ObjectKeyed(name, d) == JObj((d.start \o name \o d.end) :> JStr(<<"x">>))
\* {"k": 1, <reference to n1>: <reference to n2>}
ObjectDynamic(n1, n2, d) ==
    JObj(<<"k">> :> JInt(1) @@ (d.start \o n1 \o d.end) :> RefTo(n2, d))

Scalars == {JInt(42), JFloat(314), JBool(TRUE), JNull}

\* the values of fragment A, which refer to B, to the third fragment and to
\* the missing name
ValuesA(third, d) ==
    {RefTo(NameB, d), RefTo(NameMissing, d),
     ArrayWith(NameB, d), ArrayWith(NameMissing, d),
     ObjectWith(NameB, d), ObjectWith(NameMissing, d),
     ObjectKeyed(NameB, d), ObjectDynamic(NameB, third, d),
     TextWith(NameB, d), TextWith(NameMissing, d),
     TextBetween(NameB, third, d),
     JObj(<<"k">> :> JStr(<<"x">>))}

\* the values of fragment B
ValuesB(third, d) ==
    Scalars \cup
    {JStr(<<"y">>), RefTo(third, d), RefTo(NameA, d), RefTo(NameMissing, d),
     ArrayWith(third, d), ObjectWith(third, d), ObjectKeyed(third, d),
     TextWith(third, d)}

\* the values of the third fragment
ValuesThird(third, d) ==
    {JInt(7), JStr(<<"s">>), RefTo(NameA, d), RefTo(NameB, d),
     RefTo(third, d), RefTo(NameMissing, d), ArrayWith(NameA, d),
     TextWith(third, d)}

\* the collections written with the delimiters d: fragments A, B and a third
\* one named "C" or ""
Collections(d) ==
    UNION {{NameA :> a @@ NameB :> b @@ third :> c :
                a \in ValuesA(third, d), b \in ValuesB(third, d),
                c \in ValuesThird(third, d)} :
           third \in {NameC, NameEmpty}}

StartNames == {NameA, NameB, NameC, NameEmpty, NameMissing}

\* the delimiters of the README's custom configuration
CustomDelimiters == Delimiters(<<"{", "{">>, <<"}", "}">>)

Configs ==
    {Config(b, JNull, d) :
        b \in MissingFragmentBehavior,
        d \in {DefaultDelimiters, CustomDelimiters}}
    \cup {Config("UseDefault", JStr(<<"N">>), d) :
            d \in {DefaultDelimiters, CustomDelimiters}}

-----------------------------------------------------------------------------
(* JsonResolver *)

Init ==
    /\ config_ \in Configs
    /\ context_ = << >>
    /\ fragments \in Collections(config_.delimiters)
    /\ start_fragment = NameMissing
    /\ pc = "idle"
    /\ stack = << >>
    /\ dependencies_ = << >>
    /\ currently_evaluating_ = {}
    /\ outcome = NoOutcome
    /\ calls = 0

\* a resolve whose in-progress set outlives the call and holds the start
\* fragment, which no guard ends
Resolve_KeepsInProgress(name) ==
    /\ pc = "idle"
    /\ calls < MaxCalls
    /\ calls > 0 => name = start_fragment
    /\ start_fragment' = name
    /\ dependencies_' = << >>
    /\ IF name \notin DOMAIN fragments
       THEN /\ outcome' = Thrown(FragmentNotFoundError(name))
            /\ calls' = calls + 1
            /\ UNCHANGED <<context_, pc, stack, currently_evaluating_>>
       ELSE IF begin_evaluation(currently_evaluating_, name).threw
       THEN /\ outcome' = Thrown(begin_evaluation(currently_evaluating_,
                                                  name).error)
            /\ calls' = calls + 1
            /\ UNCHANGED <<context_, pc, stack, currently_evaluating_>>
       ELSE /\ context_' = Append(context_, name)
            /\ currently_evaluating_' =
                   begin_evaluation(currently_evaluating_, name).evaluating
            /\ stack' = <<Frame(name, fragments[name], config_.delimiters)>>
            /\ pc' = "parsing"
            /\ UNCHANGED <<outcome, calls>>
    /\ UNCHANGED <<config_, fragments>>

\* a resolve that treats an absent start fragment as it treats an absent
\* reference: by the missing-reference policy
Resolve_PolicyOnStart(name) ==
    /\ pc = "idle"
    /\ calls < MaxCalls
    /\ calls > 0 => name = start_fragment
    /\ start_fragment' = name
    /\ dependencies_' = << >>
    /\ currently_evaluating_' = {}
    /\ IF name \notin DOMAIN fragments
       THEN /\ outcome' = ReferenceNodeEvaluate(name, fragments, config_)
            /\ calls' = calls + 1
            /\ UNCHANGED <<context_, pc, stack>>
       ELSE /\ context_' = Append(context_, name)
            /\ stack' = <<Frame(name, fragments[name], config_.delimiters)>>
            /\ pc' = "parsing"
            /\ UNCHANGED <<outcome, calls>>
    /\ UNCHANGED <<config_, fragments>>

\* JsonResolver::resolve up to the call of parse on the start fragment; a
\* later call on the same resolver repeats the first one
Resolve(name) ==
    /\ pc = "idle"
    /\ calls < MaxCalls
    /\ calls > 0 => name = start_fragment
    /\ start_fragment' = name
    /\ dependencies_' = << >>
    /\ currently_evaluating_' = {}
    /\ IF name \notin DOMAIN fragments
       THEN /\ outcome' = Thrown(FragmentNotFoundError(name))
            /\ calls' = calls + 1
            /\ UNCHANGED <<context_, pc, stack>>
       ELSE /\ context_' = Append(context_, name)
            /\ stack' = <<Frame(name, fragments[name], config_.delimiters)>>
            /\ pc' = "parsing"
            /\ UNCHANGED <<outcome, calls>>
    /\ UNCHANGED <<config_, fragments>>

\* an exception leaves parse and resolve: the guards are destroyed, then the
\* parser
ParseThrows(error, deps) ==
    /\ outcome' = Thrown(error)
    /\ dependencies_' = deps
    /\ currently_evaluating_' = UnwindGuards(currently_evaluating_, stack)
    /\ stack' = << >>
    /\ pc' = "idle"
    /\ calls' = calls + 1

\* a parse whose evaluate_fragment_dependencies throws for an absent
\* fragment under the Throw policy instead of skipping it
ParseReference_Eager ==
    /\ pc = "parsing"
    /\ stack # << >>
    /\ LET top == stack[Len(stack)]
           rest == [stack EXCEPT ![Len(stack)].todo = Tail(top.todo)]
       IN
       /\ top.todo # << >>
       /\ LET fragment_name == Head(top.todo)
              added == add_dependency(dependencies_, top.current_fragment,
                                      fragment_name)
              begun == begin_evaluation(currently_evaluating_, fragment_name)
          IN
          IF top.current_fragment = << >>
          THEN /\ stack' = rest
               /\ UNCHANGED <<dependencies_, currently_evaluating_, pc,
                              outcome, calls>>
          ELSE IF added.threw THEN ParseThrows(added.error, added.deps)
          ELSE IF fragment_name \notin DOMAIN fragments
          THEN IF config_.missing_fragment_behavior = "Throw"
               THEN ParseThrows(FragmentNotFoundError(fragment_name),
                                added.deps)
               ELSE /\ stack' = rest
                    /\ dependencies_' = added.deps
                    /\ UNCHANGED <<currently_evaluating_, pc, outcome, calls>>
          ELSE IF begun.threw THEN ParseThrows(begun.error, added.deps)
          ELSE /\ stack' = Append(rest, Frame(fragment_name,
                                    fragments[fragment_name],
                                    config_.delimiters))
               /\ dependencies_' = added.deps
               /\ currently_evaluating_' = begun.evaluating
               /\ UNCHANGED <<pc, outcome, calls>>
    /\ UNCHANGED <<config_, context_, fragments, start_fragment>>

\* FragmentParser::parse meets a whole-value reference (as a string value or
\* as an object key): add_dependency, then evaluate_fragment_dependencies up
\* to its call of parse on the referenced fragment
ParseReference ==
    /\ pc = "parsing"
    /\ stack # << >>
    /\ LET top == stack[Len(stack)]
           rest == [stack EXCEPT ![Len(stack)].todo = Tail(top.todo)]
       IN
       /\ top.todo # << >>
       /\ LET fragment_name == Head(top.todo)
              added == add_dependency(dependencies_, top.current_fragment,
                                      fragment_name)
              begun == begin_evaluation(currently_evaluating_, fragment_name)
          IN
          IF top.current_fragment = << >>
          THEN /\ stack' = rest
               /\ UNCHANGED <<dependencies_, currently_evaluating_, pc,
                              outcome, calls>>
          ELSE IF added.threw THEN ParseThrows(added.error, added.deps)
          ELSE IF fragment_name \notin DOMAIN fragments
          THEN /\ stack' = rest
               /\ dependencies_' = added.deps
               /\ UNCHANGED <<currently_evaluating_, pc, outcome, calls>>
          ELSE IF begun.threw THEN ParseThrows(begun.error, added.deps)
          ELSE /\ stack' = Append(rest, Frame(fragment_name,
                                    fragments[fragment_name],
                                    config_.delimiters))
               /\ dependencies_' = added.deps
               /\ currently_evaluating_' = begun.evaluating
               /\ UNCHANGED <<pc, outcome, calls>>
    /\ UNCHANGED <<config_, context_, fragments, start_fragment>>

\* a call of parse returns: to evaluate_fragment_dependencies, whose guard
\* ends the evaluation of the fragment, or (the outermost call) to resolve,
\* with the tree
ParseReturn ==
    /\ pc = "parsing"
    /\ stack # << >>
    /\ stack[Len(stack)].todo = << >>
    /\ stack' = SubSeq(stack, 1, Len(stack) - 1)
    /\ IF Len(stack) = 1
       THEN /\ pc' = "evaluating"
            /\ UNCHANGED currently_evaluating_
       ELSE /\ currently_evaluating_' =
                 end_evaluation(currently_evaluating_,
                                stack[Len(stack)].current_fragment)
            /\ UNCHANGED pc
    /\ UNCHANGED <<config_, context_, fragments, start_fragment,
                   dependencies_, outcome, calls>>

\* what root_node->evaluate(fragments, config_) returns or throws, for the
\* tree of the start fragment
EvaluateRoot(frags, name, cfg, path) ==
    EvaluateNode(ParseTree(frags[name], cfg.delimiters), frags, cfg, path)

\* JsonResolver::resolve evaluates the tree and returns; a call whose
\* evaluation does not end never returns
Evaluate ==
    /\ pc = "evaluating"
    /\ outcome' = EvaluateRoot(fragments, start_fragment, config_, context_)
    /\ pc' = IF outcome'.kind = "diverged" THEN "hung" ELSE "idle"
    /\ calls' = calls + 1
    /\ UNCHANGED <<config_, context_, fragments, start_fragment, stack,
                   dependencies_, currently_evaluating_>>

Next ==
    \/ \E name \in StartNames : Resolve(name)
    \/ ParseReference
    \/ ParseReturn
    \/ Evaluate

Spec == Init /\ [][Next]_vars

-----------------------------------------------------------------------------
(* The calls on texts and on values without references: one fragment A     *)
(* whose value is a text or a literal shape, one fragment B it refers to,  *)
(* and three delimiter pairs.                                              *)

\* delimiters whose start equals their end
EqualDelimiters == Delimiters(<<"%">>, <<"%">>)

\* "x" + start + n1 + end + "x" + start + n2 + end
TextMixed(n1, n2, d) ==
    JStr(<<"x">> \o d.start \o n1 \o d.end
         \o <<"x">> \o d.start \o n2 \o d.end)

\* text in the default brackets, whatever the configured delimiters
BracketReference == JStr(<<"[", "B", "]">>)
BracketText == JStr(<<"x", "[", "B", "]">>)

\* values that hold no start delimiter of the model in any string or key
LiteralShapes ==
    {JInt(42), JNull, JStr(<<"x">>), JStr(<< >>), JArr(<< >>), JObj(<< >>),
     JObj(<<"k">> :> JStr(<<"x">>) @@ <<"s">> :> JInt(1)),
     JObj(<<"k">> :> JArr(<<JStr(<<"x">>), JObj(<<"k">> :> JBool(TRUE))>>)),
     JArr(<<JObj(<< >>), JArr(<< >>)>>)}

\* the values of fragment A
TextValues(d) ==
    LiteralShapes \cup
    {BracketReference, BracketText,
     RefTo(NameB, d), RefTo(NameMissing, d), ObjectWith(NameMissing, d),
     TextWith(NameB, d), TextWith(NameMissing, d),
     TextMixed(NameMissing, NameB, d), TextMixed(NameB, NameMissing, d),
     JObj(<<"k">> :> TextWith(NameMissing, d)),
     JArr(<<TextMixed(NameB, NameMissing, d)>>)}

\* the values of fragment B
TextTargets(d) ==
    {JStr(<<"y">>), JInt(42), TextWith(NameB, d), TextWith(NameA, d)}

TextCollections(d) ==
    {NameA :> a @@ NameB :> b : a \in TextValues(d), b \in TextTargets(d)}

AllDelimiters == {DefaultDelimiters, CustomDelimiters, EqualDelimiters}

\* every policy with the default value null, and UseDefault with a plain
\* string and with a string that is itself written as a reference
TextConfigs ==
    {Config(b, JNull, d) : b \in MissingFragmentBehavior, d \in AllDelimiters}
    \cup {Config("UseDefault", JStr(<<"N">>), d) : d \in AllDelimiters}
    \cup {Config("UseDefault", RefTo(<<"N">>, d), d) : d \in AllDelimiters}

InitText ==
    /\ config_ \in TextConfigs
    /\ context_ = << >>
    /\ fragments \in TextCollections(config_.delimiters)
    /\ start_fragment = NameMissing
    /\ pc = "idle"
    /\ stack = << >>
    /\ dependencies_ = << >>
    /\ currently_evaluating_ = {}
    /\ outcome = NoOutcome
    /\ calls = 0

SpecText == InitText /\ [][Next]_vars

-----------------------------------------------------------------------------
(* The calls on reference graphs: four fragments A, B, C and D that refer  *)
(* to one another by whole-value references, so that diamonds, siblings    *)
(* that refer to the same fragment, and cycles of every length occur.      *)

NameD == <<"D">>

\* [<reference to n1>, <reference to n2>]
PairOf(n1, n2, d) == JArr(<<RefTo(n1, d), RefTo(n2, d)>>)

\* {<reference to n1>: "x", "k": <reference to n2>}
KeyedThenValue(n1, n2, d) ==
    JObj((d.start \o n1 \o d.end) :> JStr(<<"x">>) @@ <<"k">> :> RefTo(n2, d))

GraphValuesA(d) ==
    {PairOf(n1, n2, d) : n1, n2 \in {NameB, NameC, NameD}}
    \cup {JObj((d.start \o NameB \o d.end) :> RefTo(NameC, d)),
          KeyedThenValue(NameB, NameMissing, d)}

GraphValuesB(d) ==
    {JStr(<<"y">>), RefTo(NameC, d), RefTo(NameD, d), RefTo(NameA, d),
     PairOf(NameC, NameD, d), PairOf(NameD, NameD, d)}

GraphValuesC(d) ==
    {JStr(<<"s">>), RefTo(NameD, d), RefTo(NameB, d), RefTo(NameA, d),
     PairOf(NameD, NameD, d)}

GraphValuesD(d) ==
    {JInt(7), JStr(<<"s">>), RefTo(NameA, d), RefTo(NameB, d), RefTo(NameD, d)}

GraphCollections(d) ==
    {NameA :> a @@ NameB :> b @@ NameC :> c @@ NameD :> dd :
        a \in GraphValuesA(d), b \in GraphValuesB(d),
        c \in GraphValuesC(d), dd \in GraphValuesD(d)}

GraphConfigs ==
    {Config(b, JNull, DefaultDelimiters) : b \in {"Throw", "LeaveUnresolved"}}

InitGraph ==
    /\ config_ \in GraphConfigs
    /\ context_ = << >>
    /\ fragments \in GraphCollections(config_.delimiters)
    /\ start_fragment = NameMissing
    /\ pc = "idle"
    /\ stack = << >>
    /\ dependencies_ = << >>
    /\ currently_evaluating_ = {}
    /\ outcome = NoOutcome
    /\ calls = 0

SpecGraph == InitGraph /\ [][Next]_vars

-----------------------------------------------------------------------------
(* The calls on strings: fragment A is any string of up to MaxLen          *)
(* characters over the delimiters' characters, a letter and a blank; the   *)
(* fragments it can name are "B", " B" and "B" + the end character.        *)

\* length of the strings
MaxLen == 5

Alphabet(d) == {d.start[1], d.end[1], "B", " "}

Strings(d) == UNION {[1 .. n -> Alphabet(d)] : n \in 0 .. MaxLen}

NameBlankB == <<" ", "B">>

StringCollections(d) ==
    {NameA :> JStr(str) @@ NameB :> JInt(7) @@ NameBlankB :> JInt(8)
         @@ (NameB \o <<d.end[1]>>) :> JInt(9) : str \in Strings(d)}

StringConfigs == {Config("Throw", JNull, d) : d \in AllDelimiters}

InitStrings ==
    /\ config_ \in StringConfigs
    /\ context_ = << >>
    /\ fragments \in StringCollections(config_.delimiters)
    /\ start_fragment = NameMissing
    /\ pc = "idle"
    /\ stack = << >>
    /\ dependencies_ = << >>
    /\ currently_evaluating_ = {}
    /\ outcome = NoOutcome
    /\ calls = 0

SpecStrings == InitStrings /\ [][Next]_vars

-----------------------------------------------------------------------------
(* What the claims speak of *)

\* a resolve call has ended (returned or thrown) and outcome is its outcome
Done == pc = "idle" /\ calls > 0

StartValue == fragments[start_fragment]

Delims == config_.delimiters

Behavior == config_.missing_fragment_behavior

\* the fragment names that occur in the model's collections
Names == StartNames

\* longest chain of references the claims follow
ChainDepth == 4

IsScalar(v) == v.t \in {"int", "float", "bool", "null"}

\* a string without the start delimiter: text with no reference syntax
IsPlainText(s) == Find(s, Delims.start, 0) = npos

\* the value is the string start + name + end
IsRefTo(v, name) == v = JStr(Delims.start \o name \o Delims.end)

\* the text occurs in the message
Mentions(what, text) == Find(what, text, 0) # npos

\* the message names the fragment: its name is in the message, and the name
\* is not simply missing from an empty spot
NamesFragment(what, name) == name # << >> /\ Mentions(what, name)

RECURSIVE OnlyWholeReferences(_, _)
\* the value, and every fragment it reaches within depth references, holds
\* nothing but literal values, plain text and whole-value references (as
\* object values and array elements) to fragments of the collection
OnlyWholeReferences(v, depth) ==
    IF is_string(v)
    THEN \/ IsPlainText(v.s)
         \/ \E n \in DOMAIN fragments :
                /\ IsRefTo(v, n)
                /\ depth > 0
                /\ OnlyWholeReferences(fragments[n], depth - 1)
    ELSE IF is_object(v)
    THEN /\ DOMAIN v.o # {}
         /\ \A key \in DOMAIN v.o :
                IsPlainText(key) /\ OnlyWholeReferences(v.o[key], depth)
    ELSE IF is_array(v)
    THEN \A i \in 1 .. Len(v.a) : OnlyWholeReferences(v.a[i], depth)
    ELSE TRUE

RECURSIVE FullyResolved(_)
\* the value with every whole-value reference replaced by the fully
\* resolved value of its target, for a value of OnlyWholeReferences
FullyResolved(v) ==
    IF is_string(v)
    THEN IF \E n \in DOMAIN fragments : IsRefTo(v, n)
         THEN FullyResolved(
                  fragments[CHOOSE n \in DOMAIN fragments : IsRefTo(v, n)])
         ELSE v
    ELSE IF is_object(v)
    THEN JObj([key \in DOMAIN v.o |-> FullyResolved(v.o[key])])
    ELSE IF is_array(v)
    THEN JArr([i \in 1 .. Len(v.a) |-> FullyResolved(v.a[i])])
    ELSE v

-----------------------------------------------------------------------------
(* C1 *)

\* C1: when resolve succeeds, every whole-value reference (the whole
\* fragment, an object value, an array element) is replaced by the fully
\* resolved value of its target, references inside the target included.
C1_ReferenceFullyResolved ==
    (/\ Done
     /\ outcome.kind = "value"
     /\ start_fragment \in DOMAIN fragments
     /\ OnlyWholeReferences(StartValue, ChainDepth))
    => outcome.value = FullyResolved(StartValue)

-----------------------------------------------------------------------------
(* C2 *)

\* the value is a whole-value reference to a fragment whose raw value is a
\* number, a boolean or null
C2_ScalarReference(v) ==
    \E n \in DOMAIN fragments : IsRefTo(v, n) /\ IsScalar(fragments[n])

C2_Target(v) == fragments[CHOOSE n \in DOMAIN fragments : IsRefTo(v, n)]

\* an object value or array element that is such a reference or holds no
\* reference at all
C2_Simple(v) ==
    \/ C2_ScalarReference(v)
    \/ IsScalar(v)
    \/ is_string(v) /\ IsPlainText(v.s)

C2_Expected(v) == IF C2_ScalarReference(v) THEN C2_Target(v) ELSE v

\* C2: a whole-value reference, used as an object value or an array element,
\* to a fragment whose raw value is a number, a boolean or null resolves to
\* exactly that value, of that JSON type.
C2_TypePreserved ==
    (Done /\ start_fragment \in DOMAIN fragments) =>
        /\ (/\ is_object(StartValue)
            /\ DOMAIN StartValue.o # {}
            /\ \A key \in DOMAIN StartValue.o :
                   IsPlainText(key) /\ C2_Simple(StartValue.o[key]))
           => outcome = Returned(JObj([key \in DOMAIN StartValue.o |->
                                         C2_Expected(StartValue.o[key])]))
        /\ (/\ is_array(StartValue)
            /\ \A i \in 1 .. Len(StartValue.a) : C2_Simple(StartValue.a[i]))
           => outcome = Returned(JArr([i \in 1 .. Len(StartValue.a) |->
                                         C2_Expected(StartValue.a[i])]))
        /\ (is_array(StartValue) /\ outcome.kind = "value") =>
               /\ is_array(outcome.value)
               /\ Len(outcome.value.a) = Len(StartValue.a)
               /\ \A i \in 1 .. Len(StartValue.a) :
                      C2_ScalarReference(StartValue.a[i]) =>
                          outcome.value.a[i] = C2_Target(StartValue.a[i])

\* an object value and an array element that refer to the integer 42 have
\* been resolved
C2_Witness ==
    /\ Done
    /\ start_fragment = NameA
    /\ fragments[NameB] = JInt(42)
    /\ \/ /\ StartValue = ObjectWith(NameB, Delims)
          /\ outcome = Returned(JObj(<<"k">> :> JInt(42)))
       \/ /\ StartValue = ArrayWith(NameB, Delims)
          /\ outcome = Returned(JArr(<<JStr(<<"x">>), JInt(42)>>))

-----------------------------------------------------------------------------
(* C3 *)

RECURSIVE RefersTo(_, _)
\* the value holds a whole-value reference to the name: as the value itself,
\* as an object value, an array element or an object key
RefersTo(v, name) ==
    IF is_string(v) THEN IsRefTo(v, name)
    ELSE IF is_object(v)
    THEN \E key \in DOMAIN v.o :
            IsRefTo(JStr(key), name) \/ RefersTo(v.o[key], name)
    ELSE IF is_array(v) THEN \E i \in 1 .. Len(v.a) : RefersTo(v.a[i], name)
    ELSE FALSE

\* fragment n of the collection refers to fragment m of the collection
DependsOn(n, m) ==
    /\ n \in DOMAIN fragments
    /\ m \in DOMAIN fragments
    /\ RefersTo(fragments[n], m)

RECURSIVE Reaches(_, _, _, _)
\* m is reached from n by one to steps references between fragments of the
\* set through
Reaches(n, m, through, steps) ==
    /\ steps > 0
    /\ n \in through
    /\ \/ DependsOn(n, m) /\ m \in through
       \/ \E via \in through :
            DependsOn(n, via) /\ Reaches(via, m, through, steps - 1)

\* the start fragment depends on itself, immediately or transitively
C3_DependsOnItself ==
    Reaches(start_fragment, start_fragment, DOMAIN fragments, ChainDepth)

\* the same, through fragments whose names are not empty
C3_DependsOnItselfNamed ==
    Reaches(start_fragment, start_fragment,
            (DOMAIN fragments) \ {NameEmpty}, ChainDepth)

C3_FailsWithCycle ==
    /\ outcome.kind = "error"
    /\ outcome.error.class = "CircularDependencyError"

\* C3: whenever the start fragment depends on itself through whole-value
\* references (values, array elements, object keys), resolve fails with a
\* CircularDependency error and nothing else.
C3_CycleDetected ==
    (Done /\ C3_DependsOnItself) => C3_FailsWithCycle

\* The extent of the failure of C3: the same holds of a start fragment that
\* depends on itself through fragments whose names are all non-empty (the
\* parser records no dependency of a fragment named "").
C3_NamedCycleDetected ==
    (Done /\ C3_DependsOnItselfNamed) => C3_FailsWithCycle

\* the cycle of the test (A, B and C, each an array that refers to the
\* next) and a cycle through an object key have been resolved
C3_Witness ==
    /\ Done
    /\ start_fragment = NameA
    /\ C3_DependsOnItselfNamed
    /\ C3_FailsWithCycle
    /\ \/ /\ StartValue = ArrayWith(NameB, Delims)
          /\ fragments[NameB] = ArrayWith(NameC, Delims)
          /\ fragments[NameC] = ArrayWith(NameA, Delims)
       \/ /\ StartValue = ObjectKeyed(NameB, Delims)
          /\ fragments[NameB] = RefTo(NameA, Delims)

-----------------------------------------------------------------------------
(* C4 *)

\* the paths that describe a cycle: from a fragment along one reference per
\* step back to the same fragment, no other fragment twice
C4_CyclePaths ==
    {p \in UNION {[1 .. len -> DOMAIN fragments] : len \in 2 .. ChainDepth + 1} :
        /\ p[1] = p[Len(p)]
        /\ \A i \in 1 .. Len(p) - 1 : DependsOn(p[i], p[i + 1])
        /\ \A i, j \in 1 .. Len(p) - 1 : i # j => p[i] # p[j]}

\* C4: the cycle description of a CircularDependency error is the path from
\* the repeated fragment along one dependency per step back to it, joined
\* by " -> ", no other name twice; for the cycle A, B, C of the test,
\* resolved from A, it is "A -> B -> C -> A".
C4_CycleDescription ==
    (Done /\ outcome.kind = "error"
          /\ outcome.error.class = "CircularDependencyError") =>
        /\ \E p \in C4_CyclePaths :
              outcome.error.what =
                  <<"Circular dependency detected: ">> \o JoinArrow(p)
        /\ (/\ start_fragment = NameA
            /\ StartValue = ArrayWith(NameB, Delims)
            /\ fragments[NameB] = ArrayWith(NameC, Delims)
            /\ NameC \in DOMAIN fragments
            /\ fragments[NameC] = ArrayWith(NameA, Delims))
           => outcome.error.what =
                  <<"Circular dependency detected: ">>
                  \o JoinArrow(<<NameA, NameB, NameC, NameA>>)

-----------------------------------------------------------------------------
(* C5 *)

\* a fragment of the collection whose value is a string of plain text
C5_PlainFragment(n) ==
    /\ n \in DOMAIN fragments
    /\ is_string(fragments[n])
    /\ IsPlainText(fragments[n].s)

\* C5: a string of literal text and delimited references to string-valued
\* fragments resolves to the string with every delimited span replaced by
\* its fragment's string, wherever the references sit, the very beginning
\* and the very end of the string included.
C5_TemplateSubstituted ==
    (Done /\ start_fragment \in DOMAIN fragments) =>
        \A n1, n2 \in Names :
            (C5_PlainFragment(n1) /\ C5_PlainFragment(n2)) =>
                /\ StartValue = TextWith(n1, Delims) =>
                      outcome = Returned(JStr(<<"x">> \o fragments[n1].s))
                /\ StartValue = TextBetween(n1, n2, Delims) =>
                      outcome = Returned(JStr(fragments[n1].s \o <<"x">>
                                              \o fragments[n2].s))

-----------------------------------------------------------------------------
(* C6 *)

C6_Missing == Names \ DOMAIN fragments

RECURSIVE C6_ReachesMissing(_, _)
\* the value reaches, within depth whole-value references, a whole-value
\* reference to a missing fragment, and on the way holds nothing but literal
\* values, plain text and whole-value references as object values and array
\* elements
C6_ReachesMissing(v, depth) ==
    IF is_string(v)
    THEN \/ \E m \in C6_Missing : IsRefTo(v, m)
         \/ \E n \in DOMAIN fragments :
                /\ IsRefTo(v, n)
                /\ depth > 0
                /\ C6_ReachesMissing(fragments[n], depth - 1)
    ELSE IF is_object(v)
    THEN /\ \A key \in DOMAIN v.o :
                /\ IsPlainText(key)
                /\ \/ C6_ReachesMissing(v.o[key], depth)
                   \/ OnlyWholeReferences(v.o[key], depth)
         /\ \E key \in DOMAIN v.o : C6_ReachesMissing(v.o[key], depth)
    ELSE IF is_array(v)
    THEN /\ \A i \in 1 .. Len(v.a) :
                \/ C6_ReachesMissing(v.a[i], depth)
                \/ OnlyWholeReferences(v.a[i], depth)
         /\ \E i \in 1 .. Len(v.a) : C6_ReachesMissing(v.a[i], depth)
    ELSE FALSE

C6_FailsWithNotFound ==
    /\ outcome.kind = "error"
    /\ outcome.error.class = "FragmentNotFoundError"
    /\ \E m \in C6_Missing : NamesFragment(outcome.error.what, m)

\* C6: under the Throw policy, a reference reachable from the start fragment
\* to a missing fragment (a whole-value reference at any depth of the chain,
\* or one embedded in text) makes resolve fail with FragmentNotFound naming
\* the missing fragment.
C6_MissingReferenceThrows ==
    (Done /\ Behavior = "Throw" /\ start_fragment \in DOMAIN fragments) =>
        /\ C6_ReachesMissing(StartValue, ChainDepth) => C6_FailsWithNotFound
        /\ (\E m \in C6_Missing : StartValue = TextWith(m, Delims))
              => C6_FailsWithNotFound

-----------------------------------------------------------------------------
(* C7 *)

\* C7: an object key that is a whole-value reference to a fragment whose
\* value is not a string makes resolve fail with InvalidKey, and the message
\* names the offending fragment.
C7_InvalidKeyNamesFragment ==
    (Done /\ start_fragment \in DOMAIN fragments) =>
        \A n \in DOMAIN fragments, m \in Names :
            (/\ IsScalar(fragments[n])
             /\ \/ StartValue = ObjectKeyed(n, Delims)
                \/ StartValue = ObjectDynamic(n, m, Delims))
            => /\ outcome.kind = "error"
               /\ outcome.error.class = "InvalidKeyError"
               /\ NamesFragment(outcome.error.what, n)

-----------------------------------------------------------------------------
(* C8 *)

\* C8: a reference embedded in text to a fragment whose value is not a
\* string makes resolve fail with an error that is still an InvalidKey error
\* when it reaches the caller, naming that fragment.
C8_TemplateInvalidKey ==
    (Done /\ start_fragment \in DOMAIN fragments) =>
        \A n \in DOMAIN fragments :
            (IsScalar(fragments[n]) /\ StartValue = TextWith(n, Delims))
            => /\ outcome.kind = "error"
               /\ outcome.error.class = "InvalidKeyError"
               /\ NamesFragment(outcome.error.what, n)

-----------------------------------------------------------------------------
(* C9 *)

\* C9: an object with a key that is a whole-value reference to a
\* string-valued fragment resolves to an object with an entry under the
\* fragment's string, whose value is the resolved value of the original
\* entry; its entries with literal keys stay under their keys.
C9_DynamicKey ==
    (Done /\ start_fragment \in DOMAIN fragments) =>
        \A n1, n2 \in DOMAIN fragments :
            (/\ StartValue = ObjectDynamic(n1, n2, Delims)
             /\ C5_PlainFragment(n1)
             /\ fragments[n1].s # <<"k">>
             /\ OnlyWholeReferences(RefTo(n2, Delims), ChainDepth))
            => outcome = Returned(JObj(
                   <<"k">> :> JInt(1)
                   @@ fragments[n1].s :> FullyResolved(RefTo(n2, Delims))))

-----------------------------------------------------------------------------
(* C10 *)

\* the value is a whole-value reference to a missing fragment
C10_MissingReference(v) == \E m \in C6_Missing : IsRefTo(v, m)

C10_MissingName(v) == CHOOSE m \in C6_Missing : IsRefTo(v, m)

\* what the policy makes of a whole-value reference to the missing name
C10_PolicyValue(name) ==
    CASE Behavior = "LeaveUnresolved" ->
            JStr(Delims.start \o name \o Delims.end)
      [] Behavior = "UseDefault" -> config_.default_value
      [] Behavior = "Remove" -> JStr(<< >>)

\* an object value or array element that is such a reference or holds no
\* reference at all
C10_Simple(v) ==
    \/ C10_MissingReference(v)
    \/ IsScalar(v)
    \/ is_string(v) /\ IsPlainText(v.s)

C10_Expected(v) ==
    IF C10_MissingReference(v) THEN C10_PolicyValue(C10_MissingName(v)) ELSE v

\* resolve failed with FragmentNotFound for a missing name that one of the
\* values refers to
C10_NotFoundAmong(values) ==
    /\ outcome.kind = "error"
    /\ outcome.error.class = "FragmentNotFoundError"
    /\ \E v \in values :
          /\ C10_MissingReference(v)
          /\ outcome.error.what =
                 <<"Fragment not found: ">> \o C10_MissingName(v)

\* C10: what a whole-value reference to a missing fragment resolves to is
\* fixed by the policy alone: Throw fails with FragmentNotFound,
\* LeaveUnresolved gives the string start + name + end with the configured
\* delimiters, UseDefault gives the default value with its own JSON type,
\* Remove gives the empty string; as the whole start fragment, as an object
\* value and as an array element.
C10_MissingByPolicy ==
    (Done /\ start_fragment \in DOMAIN fragments) =>
        /\ C10_MissingReference(StartValue) =>
              IF Behavior = "Throw" THEN C10_NotFoundAmong({StartValue})
              ELSE outcome = Returned(C10_Expected(StartValue))
        /\ (/\ is_object(StartValue)
            /\ \A key \in DOMAIN StartValue.o :
                   IsPlainText(key) /\ C10_Simple(StartValue.o[key])
            /\ \E key \in DOMAIN StartValue.o :
                   C10_MissingReference(StartValue.o[key]))
           => IF Behavior = "Throw"
              THEN C10_NotFoundAmong({StartValue.o[key] :
                                         key \in DOMAIN StartValue.o})
              ELSE outcome = Returned(JObj([key \in DOMAIN StartValue.o |->
                                        C10_Expected(StartValue.o[key])]))
        /\ (/\ is_array(StartValue)
            /\ \A i \in 1 .. Len(StartValue.a) : C10_Simple(StartValue.a[i])
            /\ \E i \in 1 .. Len(StartValue.a) :
                   C10_MissingReference(StartValue.a[i]))
           => IF Behavior = "Throw"
              THEN C10_NotFoundAmong({StartValue.a[i] :
                                         i \in 1 .. Len(StartValue.a)})
              ELSE outcome = Returned(JArr([i \in 1 .. Len(StartValue.a) |->
                                        C10_Expected(StartValue.a[i])]))

\* the example: {"k": <reference to a missing fragment>} has been resolved
\* to {"k": "N"} under UseDefault with the default value "N"
C10_Witness ==
    /\ Done
    /\ Behavior = "UseDefault"
    /\ config_.default_value = JStr(<<"N">>)
    /\ start_fragment = NameA
    /\ StartValue = ObjectWith(NameMissing, Delims)
    /\ outcome = Returned(JObj(<<"k">> :> JStr(<<"N">>)))

-----------------------------------------------------------------------------
(* C11 *)

\* what the policy makes of one absent delimited span inside a text
C11_AbsentSpan(name) ==
    CASE Behavior = "LeaveUnresolved" -> Delims.start \o name \o Delims.end
      [] Behavior = "UseDefault" -> config_.default_value.s
      [] Behavior = "Remove" -> << >>

\* the text the claim expects of the start fragment: the absent span by the
\* policy, the present reference to B substituted
C11_Expected ==
    CASE StartValue = TextWith(NameMissing, Delims) ->
            <<"x">> \o C11_AbsentSpan(NameMissing)
      [] StartValue = TextMixed(NameMissing, NameB, Delims) ->
            <<"x">> \o C11_AbsentSpan(NameMissing)
            \o <<"x">> \o fragments[NameB].s
      [] StartValue = TextMixed(NameB, NameMissing, Delims) ->
            <<"x">> \o fragments[NameB].s
            \o <<"x">> \o C11_AbsentSpan(NameMissing)

\* C11: inside a text the missing-reference policy is applied per
\* occurrence: LeaveUnresolved leaves each absent span as written and still
\* substitutes the present references, UseDefault splices in the default
\* value, which must be a string or the call fails, Remove splices in the
\* empty string; and in all three cases the evaluation of the text ends.
C11_TemplatePolicy ==
    (/\ start_fragment = NameA
     /\ NameA \in DOMAIN fragments
     /\ C5_PlainFragment(NameB)
     /\ Behavior # "Throw"
     /\ StartValue \in {TextWith(NameMissing, Delims),
                        TextMixed(NameMissing, NameB, Delims),
                        TextMixed(NameB, NameMissing, Delims)})
    => /\ pc # "hung"
       /\ Done =>
            IF Behavior = "UseDefault" /\ ~is_string(config_.default_value)
            THEN outcome.kind = "error"
            ELSE outcome = Returned(JStr(C11_Expected))

-----------------------------------------------------------------------------
(* C12 *)

\* C12: resolve with a start name absent from the collection fails with
\* FragmentNotFound naming the start name, under every missing-reference
\* policy, and builds and evaluates nothing: the call ends in the step that
\* begins it, with no parse begun, no path component pushed and no
\* dependency recorded.
C12_AbsentStartThrows ==
    [][(pc = "idle" /\ start_fragment' \notin DOMAIN fragments) =>
          /\ outcome' = Thrown([class |-> "FragmentNotFoundError",
                                what |-> <<"Fragment not found: ">>
                                         \o start_fragment'])
          /\ pc' = "idle"
          /\ calls' = calls + 1
          /\ stack' = << >>
          /\ context_' = context_
          /\ dependencies_' = << >>
          /\ currently_evaluating_' = {}]_vars

\* resolve of the missing name has failed under a policy other than Throw
C12_Witness ==
    /\ Done
    /\ start_fragment = NameMissing
    /\ NameMissing \notin DOMAIN fragments
    /\ Behavior = "UseDefault"
    /\ outcome.kind = "error"
    /\ outcome.error.class = "FragmentNotFoundError"
    /\ stack = << >>

-----------------------------------------------------------------------------
(* C13 *)

\* C13: after resolve has finished, by a return or by a failure, no state
\* of the call remains in the resolver: the evaluation path and the
\* in-progress set are what they were before the first call, empty.
C13_NoCallStateRemains ==
    Done => /\ context_ = << >>
            /\ currently_evaluating_ = {}
            /\ stack = << >>

-----------------------------------------------------------------------------
(* C14 *)

\* C14: resolving the same collection and start name again on the same
\* resolver, nothing changed in between, gives the same outcome: the call
\* returns if and only if the call before it returned, and it returns the
\* same JSON value; a call that fails fails with the same class of error.
C14_SameValueTwice ==
    [][(calls >= 1 /\ calls' = calls + 1) =>
          /\ outcome'.kind = outcome.kind
          /\ outcome.kind = "value" => outcome'.value = outcome.value
          /\ outcome.kind = "error" =>
                outcome'.error.class = outcome.error.class]_vars

\* the second resolve of A = {"k": <reference to B>}, B = "y" has returned
C14_Witness ==
    /\ pc = "idle"
    /\ calls = 2
    /\ start_fragment = NameA
    /\ StartValue = ObjectWith(NameB, Delims)
    /\ fragments[NameB] = JStr(<<"y">>)
    /\ outcome = Returned(JObj(<<"k">> :> JStr(<<"y">>)))

-----------------------------------------------------------------------------
(* C15 *)

RECURSIVE C15_NoReferenceSyntax(_)
\* no string and no key of the value holds the start delimiter
C15_NoReferenceSyntax(v) ==
    IF is_string(v) THEN IsPlainText(v.s)
    ELSE IF is_object(v)
    THEN \A key \in DOMAIN v.o :
            IsPlainText(key) /\ C15_NoReferenceSyntax(v.o[key])
    ELSE IF is_array(v)
    THEN \A i \in 1 .. Len(v.a) : C15_NoReferenceSyntax(v.a[i])
    ELSE TRUE

\* C15: a fragment whose value holds no reference syntax resolves to a value
\* equal to its raw value, of the same JSON type at every level: scalars,
\* strings, arrays, objects, nested containers, the empty array and the
\* empty object.
C15_LiteralUnchanged ==
    (Done /\ start_fragment \in DOMAIN fragments
          /\ C15_NoReferenceSyntax(StartValue))
    => outcome = Returned(StartValue)

-----------------------------------------------------------------------------
(* C16 *)

\* C16: references are found and substituted by the configured delimiters
\* and nothing else, whatever non-empty start and end are configured (more
\* than one character, start equal to end): start + name + end is a
\* whole-value reference to name, a span start + name + end inside other
\* text is replaced by the fragment's string, and text in the default
\* brackets is plain text when other delimiters are configured.
C16_ConfiguredDelimiters ==
    (Done /\ start_fragment = NameA /\ NameA \in DOMAIN fragments) =>
        /\ (StartValue = RefTo(NameB, Delims) /\ C5_PlainFragment(NameB))
              => outcome = Returned(fragments[NameB])
        /\ (StartValue = TextWith(NameB, Delims) /\ C5_PlainFragment(NameB))
              => outcome = Returned(JStr(<<"x">> \o fragments[NameB].s))
        /\ (Delims # DefaultDelimiters
            /\ StartValue \in {BracketReference, BracketText})
              => outcome = Returned(StartValue)

-----------------------------------------------------------------------------
(* C17 *)

\* resolve failed with an error whose message ends with the location
C17_FailsAt(path) ==
    LET suffix == <<" at ">> \o path_string(path)
        what == outcome.error.what
    IN  /\ outcome.kind = "error"
        /\ Len(what) >= Len(suffix)
        /\ SubSeq(what, Len(what) - Len(suffix) + 1, Len(what)) = suffix

\* C17: a failure while resolving a reference nested inside an object or an
\* array reaches the caller with the location path: the start fragment name
\* and then the object keys and array indices that lead to the failing
\* value, each once; for a whole-value reference as for a reference inside
\* a text.
C17_ErrorCarriesPath ==
    (Done /\ Behavior = "Throw" /\ start_fragment = NameA
          /\ NameA \in DOMAIN fragments) =>
        /\ StartValue = ObjectWith(NameMissing, Delims)
              => C17_FailsAt(<<NameA, <<"k">>>>)
        /\ StartValue = JObj(<<"k">> :> TextWith(NameMissing, Delims))
              => C17_FailsAt(<<NameA, <<"k">>>>)
        /\ (StartValue = JArr(<<TextMixed(NameB, NameMissing, Delims)>>)
            /\ C5_PlainFragment(NameB))
              => C17_FailsAt(<<NameA, <<"0">>>>)

-----------------------------------------------------------------------------
(* C18 *)

\* the start fragment reaches itself through references embedded in texts:
\* B = "x" + <reference to B>, or A = "x" + <reference to B> with
\* B = "x" + <reference to A> or to B
C18_ReachesItselfInText ==
    /\ start_fragment \in {NameA, NameB}
    /\ {NameA, NameB} \subseteq DOMAIN fragments
    /\ fragments[NameB] \in {TextWith(NameA, Delims), TextWith(NameB, Delims)}
    /\ start_fragment = NameB => fragments[NameB] = TextWith(NameB, Delims)
    /\ start_fragment = NameA => StartValue = TextWith(NameB, Delims)

\* C18: resolve ends on every collection; when a fragment reaches itself
\* through references embedded in texts, the call ends with a
\* CircularDependency error and does not substitute for ever.
C18_Terminates ==
    /\ pc # "hung"
    /\ (Done /\ C18_ReachesItselfInText) => C3_FailsWithCycle

-----------------------------------------------------------------------------
(* C19 *)

\* the fragments the start fragment reaches by whole-value references, the
\* start fragment included
C19_Reachable ==
    {n \in DOMAIN fragments :
        \/ n = start_fragment
        \/ Reaches(start_fragment, n, DOMAIN fragments, ChainDepth)}

\* no fragment the start fragment reaches depends on itself
C19_Acyclic ==
    \A n \in C19_Reachable : ~Reaches(n, n, DOMAIN fragments, ChainDepth)

\* C19: no CircularDependency error is reported when the graph of
\* whole-value references reachable from the start fragment has no cycle,
\* diamonds and fragments referred to by several siblings included:
\* a call that fails with CircularDependency had a cycle in that graph.
C19_NoFalseCycle ==
    (Done /\ start_fragment \in DOMAIN fragments /\ C3_FailsWithCycle)
    => ~C19_Acyclic

\* the diamond A = [B, C], B and C both refer to D, has been resolved from A
\* and returned
C19_Witness ==
    /\ Done
    /\ start_fragment = NameA
    /\ NameD \in DOMAIN fragments
    /\ StartValue = PairOf(NameB, NameC, Delims)
    /\ fragments[NameB] = RefTo(NameD, Delims)
    /\ fragments[NameC] = RefTo(NameD, Delims)
    /\ fragments[NameD] = JInt(7)
    /\ C19_Acyclic
    /\ outcome.kind = "value"

-----------------------------------------------------------------------------
(* C20 *)

\* C20: when the graph of whole-value references reachable from the start
\* fragment holds a cycle, the CircularDependency error is raised while the
\* tree is built, before any node is evaluated, and no other outcome takes
\* its place: a call that reaches the evaluation of its tree, or that ends
\* otherwise than by a CircularDependency error, had no cycle in that graph.
C20_CycleBeforeEvaluation ==
    (/\ start_fragment \in DOMAIN fragments
     /\ \/ pc \in {"evaluating", "hung"}
        \/ Done /\ ~C3_FailsWithCycle)
    => C19_Acyclic

-----------------------------------------------------------------------------
(* C21 *)

\* the start fragment's value holds a whole-value reference to a fragment
\* absent from the collection
C21_RefersToMissing ==
    \E m \in C6_Missing : RefersTo(StartValue, m)

\* C21: under the Throw policy a whole-value reference to an absent fragment
\* fails with FragmentNotFound while the tree is built, before any node is
\* evaluated, whatever evaluation-time failure the same fragment holds.
C21_MissingAtConstruction ==
    (/\ Behavior = "Throw"
     /\ start_fragment \in DOMAIN fragments
     /\ C21_RefersToMissing
     /\ C19_Acyclic)
    => /\ pc \notin {"evaluating", "hung"}
       /\ Done => /\ outcome.kind = "error"
                  /\ outcome.error.class = "FragmentNotFoundError"

\* What holds instead: the construction of the tree never fails with
\* FragmentNotFound (it skips an absent name and fails for cycles alone);
\* under the Throw policy the error is raised by the evaluation of the start
\* fragment's tree when it comes to the Reference node, and an
\* evaluation-time failure that comes earlier in evaluation order (a key
\* that refers to a non-string fragment) is reported in its place.
C21_MissingAtEvaluation ==
    [][(start_fragment \in DOMAIN fragments /\ calls' = calls + 1) =>
          /\ pc = "parsing" =>
                /\ outcome'.kind = "error"
                /\ outcome'.error.class = "CircularDependencyError"
          /\ (/\ pc = "evaluating"
              /\ Behavior = "Throw"
              /\ \/ StartValue = RefTo(NameMissing, Delims)
                 \/ StartValue = ObjectWith(NameMissing, Delims)
                 \/ StartValue = ArrayWith(NameMissing, Delims)
                 \/ /\ StartValue = KeyedThenValue(NameB, NameMissing, Delims)
                    /\ is_string(fragments[NameB]))
             => outcome' = Thrown(FragmentNotFoundError(NameMissing))
          /\ (/\ pc = "evaluating"
              /\ StartValue = KeyedThenValue(NameB, NameMissing, Delims)
              /\ ~is_string(fragments[NameB]))
             => /\ outcome'.kind = "error"
                /\ outcome'.error.class = "InvalidKeyError"]_vars

\* {<reference to B>: "x", "k": <reference to a missing fragment>} with B an
\* array has been resolved under Throw: the tree was built and its
\* evaluation failed at the key
C21_Witness ==
    /\ Done
    /\ Behavior = "Throw"
    /\ start_fragment = NameA
    /\ StartValue = KeyedThenValue(NameB, NameMissing, Delims)
    /\ is_array(fragments[NameB])
    /\ outcome.kind = "error"
    /\ outcome.error.class = "InvalidKeyError"

-----------------------------------------------------------------------------
(* C22 *)

\* the names of which the string is start + name + end
C22_NamesOf(str) ==
    {name \in {SubSeq(str, i, j) : i \in 1 .. Len(str) + 1, j \in 0 .. Len(str)} :
        str = Delims.start \o name \o Delims.end}

\* C22: the builder takes a string for a whole-value reference exactly when
\* the string is start + name + end, and then looks up exactly that name,
\* untrimmed and with the delimiter characters it holds; a string that holds
\* the start delimiter and is not of that form is a templated string; every
\* other string is a literal and is returned unchanged.
C22_StringClassified ==
    (start_fragment = NameA /\ NameA \in DOMAIN fragments
       /\ is_string(StartValue) /\ pc \in {"evaluating", "idle"})
    => LET str == StartValue.s
           node == ParseTree(StartValue, Delims)
       IN  IF C22_NamesOf(str) # {}
           THEN \A name \in C22_NamesOf(str) :
                   /\ node = ReferenceNode(name)
                   /\ (Done /\ Behavior = "Throw") =>
                         outcome = IF name \in DOMAIN fragments
                                   THEN Returned(fragments[name])
                                   ELSE Thrown([class |-> "FragmentNotFoundError",
                                                what |-> <<"Fragment not found: ">>
                                                         \o name])
           ELSE IF ~IsPlainText(str)
           THEN node = StringTemplateNode(str)
           ELSE /\ node = LiteralNode(StartValue)
                /\ Done => outcome = Returned(StartValue)

\* the string start + " B" + end has been resolved to the value of the
\* fragment named " B", not to that of the fragment named "B"
C22_Witness ==
    /\ Done
    /\ start_fragment = NameA
    /\ StartValue = RefTo(NameBlankB, Delims)
    /\ NameBlankB \in DOMAIN fragments
    /\ outcome = Returned(fragments[NameBlankB])
    /\ outcome # Returned(fragments[NameB])

-----------------------------------------------------------------------------
(* C23 *)

\* the fragments whose construction is in progress: those of the active
\* calls of parse but the outermost, which is the start fragment's
C23_Entered == {stack[i].current_fragment : i \in 2 .. Len(stack)}

\* C23: the in-progress set is kept in stack discipline during a resolve
\* call: it holds exactly the referenced fragments whose construction is
\* going on, each once, so each is removed when its construction ends, by a
\* return or by a failure, and nothing is left marked for a sibling or
\* after the construction.
C23_StackDiscipline ==
    IF pc = "parsing"
    THEN /\ currently_evaluating_ = C23_Entered
         /\ Cardinality(C23_Entered) = Len(stack) - 1
    ELSE currently_evaluating_ = {}

\* a failure has left the construction of a fragment two references below
\* the start fragment, and nothing is marked
C23_Witness ==
    /\ Done
    /\ C3_FailsWithCycle
    /\ start_fragment = NameA
    /\ StartValue = PairOf(NameB, NameC, Delims)
    /\ fragments[NameB] = RefTo(NameD, Delims)
    /\ fragments[NameC] = RefTo(NameD, Delims)
    /\ fragments[NameD] = RefTo(NameB, Delims)
    /\ currently_evaluating_ = {}

-----------------------------------------------------------------------------
(* C24 *)

\* the builder is at a whole-value reference, in a fragment with a name, to
\* a fragment in progress or to the start fragment: the reference and the
\* add_dependency call made for it
C24_AtReentry ==
    /\ pc = "parsing"
    /\ stack # << >>
    /\ stack[Len(stack)].todo # << >>
    /\ stack[Len(stack)].current_fragment # << >>
    /\ \/ Head(stack[Len(stack)].todo) \in currently_evaluating_
       \/ Head(stack[Len(stack)].todo) = start_fragment

C24_Added ==
    add_dependency(dependencies_, stack[Len(stack)].current_fragment,
                   Head(stack[Len(stack)].todo))

\* C24: the re-entry check of begin_evaluation never fires: whenever the
\* builder is about to enter a fragment that is in the in-progress set, or
\* the start fragment, the add_dependency call made just before has raised
\* CircularDependency.
C24_ReentryNeverFires ==
    C24_AtReentry =>
        /\ C24_Added.threw
        /\ C24_Added.error.class = "CircularDependencyError"

\* the builder is at a reference to a fragment in progress that is not the
\* start fragment, and add_dependency raises
C24_Witness ==
    /\ C24_AtReentry
    /\ Head(stack[Len(stack)].todo) \in currently_evaluating_
    /\ Head(stack[Len(stack)].todo) # start_fragment
    /\ C24_Added.threw

=============================================================================
